---- MODULE Spec2Model ----
(***************************************************************************)
(* Model of pcachefs (src/pcachefs/pcachefs.py): the Cacher caching engine *)
(* over an UnderlyingFs origin.  One logical file path and one logical     *)
(* directory path are modelled; the cache artifacts of the file path are   *)
(* cache.stat, cache.data and cache.data.range, the artifact of the        *)
(* directory path is cache.list.  Every Cacher operation is broken into    *)
(* its individual file steps so that intermediate on-disk states exist.    *)
(***************************************************************************)
EXTENDS Integers, Sequences, FiniteSets, TLC

(* ------------------------------ bounds -------------------------------- *)
MaxSize == 3          \* largest origin file, in bytes
MaxOffset == 3        \* largest offset passed to read
MaxReadSize == 3      \* largest size passed to read
MaxCrashes == 1       \* process crashes considered in SpecCrash
MaxMutations == 1     \* changes of the origin considered in SpecMut

MainThread == 1
Threads == {1, 2}

VARIABLES
  origin_file,        \* bytes of the origin file (UnderlyingFs.real_path/f)
  origin_dir,         \* os.listdir of the origin directory
  cache_stat,         \* <cachedir>/f/cache.stat
  cache_list,         \* <cachedir>/cache.list
  cache_data,         \* <cachedir>/f/cache.data
  cache_data_range,   \* <cachedir>/f/cache.data.range
  cache_only_mode,    \* Cacher.cache_only_mode
  th,                 \* per thread: position in the running operation and its locals
  crashes,            \* number of process crashes so far
  interrupted,        \* the read the last crash interrupted, until it has been repeated
  mutations           \* number of changes made to the origin so far

vars == <<origin_file, origin_dir, cache_stat, cache_list, cache_data,
          cache_data_range, cache_only_mode, th, crashes, interrupted, mutations>>

origin == <<origin_file, origin_dir>>
disk == <<cache_stat, cache_list, cache_data, cache_data_range>>
env == <<crashes, interrupted, mutations>>

Min(a, b) == IF a < b THEN a ELSE b
Max(a, b) == IF a > b THEN a ELSE b

(* ------------------- range algebra (module ranges) -------------------- *)
\* Range(start, end): half-open interval [start, end)
Range(start, end) == [start |-> start, end |-> end]

\* Range.size
RangeSize(r) == r.end - r.start

\* the offsets of a range
RangeOffsets(r) == r.start .. (r.end - 1)

RECURSIVE Covered(_)
\* the offsets covered by a sequence of ranges
Covered(rs) ==
  IF rs = <<>> THEN {}
  ELSE RangeOffsets(Head(rs)) \cup Covered(Tail(rs))

SetMax(S) == CHOOSE x \in S : \A y \in S : y <= x

RECURSIVE RunsFrom(_, _, _)
\* the maximal runs of consecutive members of S within lo..hi, ascending
RunsFrom(S, lo, hi) ==
  IF lo > hi THEN <<>>
  ELSE IF lo \notin S THEN RunsFrom(S, lo + 1, hi)
  ELSE LET e == CHOOSE x \in (lo + 1) .. (hi + 1) :
                  /\ x \notin S
                  /\ \A y \in lo .. (x - 1) : y \in S
       IN <<Range(lo, e)>> \o RunsFrom(S, e + 1, hi)

\* canonical form: disjoint, non-adjacent, ascending
Canonical(S) == IF S = {} THEN <<>> ELSE RunsFrom(S, 0, SetMax(S))

\* Ranges.add_ranges(blocks): every offset covered before plus every offset
\* of the blocks, re-canonicalized
add_ranges(rs, blocks) == Canonical(Covered(rs) \cup Covered(blocks))

\* Ranges.get_uncovered_portions(r): maximal sub-ranges of r not covered
get_uncovered_portions(rs, r) == Canonical(RangeOffsets(r) \ Covered(rs))

(* --------------------------- files on disk ----------------------------- *)
\* A pickled artifact is absent, present but empty (opened 'wb', nothing
\* dumped yet) or present holding one complete pickle.
NoFile(dflt) == [exists |-> FALSE, complete |-> FALSE, val |-> dflt]
EmptyFile(dflt) == [exists |-> TRUE, complete |-> FALSE, val |-> dflt]
Pickled(v) == [exists |-> TRUE, complete |-> TRUE, val |-> v]

NoStat == [st_size |-> 0]
NoData == [exists |-> FALSE, bytes |-> <<>>]

\* Splice without the seek: the block is written at the start of the file
Splice_noseek(bytes, start, block) ==
  IF block = <<>> THEN bytes
  ELSE [k \in 1 .. Max(Len(bytes), Len(block)) |->
          IF k <= Len(block) THEN block[k] ELSE bytes[k]]

\* f.seek(start); f.write(block) on a file holding bytes
Splice(bytes, start, block) ==
  IF block = <<>> THEN bytes
  ELSE LET n == Max(Len(bytes), start + Len(block))
       IN [i \in 1 .. n |->
             IF i > start /\ i <= start + Len(block) THEN block[i - start]
             ELSE IF i <= Len(bytes) THEN bytes[i]
             ELSE 0]

\* f.seek(offset); f.read(size) on a file holding bytes
ReadAt(bytes, size, offset) ==
  SubSeq(bytes, offset + 1, Min(offset + size, Len(bytes)))

(* ------------------------------ origin --------------------------------- *)
FuseStat(bytes) == [st_size |-> Len(bytes)]

UnderlyingFs_getattr == FuseStat(origin_file)

UnderlyingFs_readdir == <<".", "..">> \o origin_dir

UnderlyingFs_read(size, offset) == ReadAt(origin_file, size, offset)

\* the origin files the model starts from: the byte at offset o is o + 1
OriginFiles == {[i \in 1 .. n |-> i] : n \in 0 .. MaxSize}

(* --------------------------- thread locals ----------------------------- *)
IdleThread ==
  [pc |-> "idle", op |-> "none", size |-> 0, offset |-> 0, force_reload |-> FALSE,
   file_stat |-> NoStat, cached_blocks |-> <<>>, blocks_to_read |-> <<>>,
   i |-> 1, listing |-> <<>>, err |-> "none", result |-> <<>>,
   \* history of the running operation
   calls |-> <<>>, written |-> {}, pre |-> <<>>, com |-> FALSE,
   \* a read issued again with the same arguments, and what it returned first
   repeat |-> FALSE, first |-> <<>>,
   \* dispatcher operations: path and flags given, entries of vfs.readdir,
   \* value returned
   path |-> "", flags |-> "", vfs_out |-> <<>>, ret |-> "",
   \* a call of the origin has raised
   failed |-> FALSE,
   \* the thread has started an operation while another thread was inside one
   overlapped |-> FALSE]

Idle(t) == th[t].pc = "idle"

NoInterrupt == [valid |-> FALSE, size |-> 0, offset |-> 0]

Goto(t, pc) == th' = [th EXCEPT ![t].pc = pc]

Init ==
  /\ origin_file \in OriginFiles
  /\ origin_dir = <<"a", "b">>
  /\ cache_stat = NoFile(NoStat)
  /\ cache_list = NoFile(<<>>)
  /\ cache_data = NoData
  /\ cache_data_range = NoFile(<<>>)
  /\ cache_only_mode = FALSE
  /\ th = [t \in Threads |-> IdleThread]
  /\ crashes = 0
  /\ interrupted = NoInterrupt
  /\ mutations = 0


(* ------------------------- starting an operation ----------------------- *)
\* another thread is between the entry and the return of an operation
OthersInside(t) == \E u \in Threads \ {t} : th[u].pc \notin {"idle", "done"}

Begin(t, op, pc, size, offset, force_reload) ==
  /\ Idle(t)
  /\ th' = [th EXCEPT ![t] =
              [IdleThread EXCEPT !.pc = pc, !.op = op, !.size = size,
                                 !.offset = offset, !.force_reload = force_reload,
                                 !.pre = disk, !.com = cache_only_mode,
                                 !.overlapped = th[t].overlapped \/ OthersInside(t)]]
  /\ UNCHANGED <<origin, disk, cache_only_mode, env>>

\* Cacher.read(path, size, offset, force_reload) is entered
StartRead(t, size, offset, force_reload) ==
  Begin(t, "read", "init_exists", size, offset, force_reload)

\* Cacher.getattr(path) is entered
StartGetattr(t) == Begin(t, "getattr", "getattr_lookup", 0, 0, FALSE)

\* Cacher.readdir(path, offset) is entered
StartReaddir(t) == Begin(t, "readdir", "readdir_lookup", 0, 0, FALSE)

\* the operation returns to (or raises into) the dispatcher
Return(t) ==
  /\ th[t].pc = "done"
  /\ th' = [th EXCEPT ![t] = [IdleThread EXCEPT !.overlapped = th[t].overlapped]]
  /\ interrupted' = NoInterrupt
  /\ UNCHANGED <<origin, disk, cache_only_mode, crashes, mutations>>

Raise(t, err) == th' = [th EXCEPT ![t].pc = "done", ![t].err = err]

cache_only_mode_enable ==
  /\ \A t \in Threads : Idle(t)
  /\ cache_only_mode' = TRUE
  /\ UNCHANGED <<origin, disk, th, env>>

cache_only_mode_disable ==
  /\ \A t \in Threads : Idle(t)
  /\ cache_only_mode' = FALSE
  /\ UNCHANGED <<origin, disk, th, env>>

(* ------------------------------ getattr -------------------------------- *)
\* where getattr returns to: its caller init_cached_data, or the dispatcher
GetattrReturn(t) == IF th[t].op = "read" THEN "init_open" ELSE "done"

\* getattr_lookup that never looks at cache.stat and always asks the origin
getattr_lookup_refetch(t) ==
  /\ th[t].pc = "getattr_lookup"
  /\ th' = [th EXCEPT ![t].pc = "getattr_open",
                      ![t].file_stat = UnderlyingFs_getattr,
                      ![t].calls = Append(@, [op |-> "getattr", start |-> 0, size |-> 0])]
  /\ UNCHANGED <<origin, disk, cache_only_mode, env>>

\* Cacher.getattr: os.path.exists(cache.stat), then pickle.load of it or
\* underlying_fs.getattr
getattr_lookup(t) ==
  /\ th[t].pc = "getattr_lookup"
  /\ IF cache_stat.exists
     THEN IF cache_stat.complete
          THEN th' = [th EXCEPT ![t].pc = GetattrReturn(t),
                                ![t].file_stat = cache_stat.val]
          ELSE Raise(t, "EOFError")
     ELSE th' = [th EXCEPT ![t].pc = "getattr_open",
                           ![t].file_stat = UnderlyingFs_getattr,
                           ![t].calls = Append(@, [op |-> "getattr", start |-> 0, size |-> 0])]
  /\ UNCHANGED <<origin, disk, cache_only_mode, env>>

\* open(cache.stat, 'wb')
getattr_open(t) ==
  /\ th[t].pc = "getattr_open"
  /\ cache_stat' = EmptyFile(NoStat)
  /\ Goto(t, "getattr_dump")
  /\ UNCHANGED <<origin, cache_list, cache_data, cache_data_range, cache_only_mode, env>>

\* pickle.dump(result, stat_cache_file)
getattr_dump(t) ==
  /\ th[t].pc = "getattr_dump"
  /\ cache_stat' = Pickled(th[t].file_stat)
  /\ Goto(t, GetattrReturn(t))
  /\ UNCHANGED <<origin, cache_list, cache_data, cache_data_range, cache_only_mode, env>>

(* ------------------------------ readdir -------------------------------- *)
\* Cacher.readdir: os.path.exists(cache.list), then pickle.load of it or
\* list(underlying_fs.readdir)
readdir_lookup(t) ==
  /\ th[t].pc = "readdir_lookup"
  /\ IF cache_list.exists
     THEN IF cache_list.complete
          THEN th' = [th EXCEPT ![t].pc = "done", ![t].listing = cache_list.val]
          ELSE Raise(t, "EOFError")
     ELSE th' = [th EXCEPT ![t].pc = "readdir_open",
                           ![t].listing = UnderlyingFs_readdir,
                           ![t].calls = Append(@, [op |-> "readdir", start |-> 0, size |-> 0])]
  /\ UNCHANGED <<origin, disk, cache_only_mode, env>>

\* open(cache.list, 'wb')
readdir_open(t) ==
  /\ th[t].pc = "readdir_open"
  /\ cache_list' = EmptyFile(<<>>)
  /\ Goto(t, "readdir_dump")
  /\ UNCHANGED <<origin, cache_stat, cache_data, cache_data_range, cache_only_mode, env>>

\* pickle.dump(result, list_cache_file)
readdir_dump(t) ==
  /\ th[t].pc = "readdir_dump"
  /\ cache_list' = Pickled(th[t].listing)
  /\ Goto(t, "done")
  /\ UNCHANGED <<origin, cache_stat, cache_data, cache_data_range, cache_only_mode, env>>


(* ------------------------------- read ---------------------------------- *)
\* init_cached_data without the test for cache.data: it is created anew on
\* every read
init_exists_always(t) ==
  /\ th[t].pc = "init_exists"
  /\ Goto(t, "getattr_lookup")
  /\ UNCHANGED <<origin, disk, cache_only_mode, env>>

\* init_cached_data: os.path.exists(cache.data); when absent, self.getattr
init_exists(t) ==
  /\ th[t].pc = "init_exists"
  /\ Goto(t, IF cache_data.exists THEN "remove_cached_blocks" ELSE "getattr_lookup")
  /\ UNCHANGED <<origin, disk, cache_only_mode, env>>

\* init_cached_data: open(cache.data, 'wb'); f.truncate()
init_open(t) ==
  /\ th[t].pc = "init_open"
  /\ cache_data' = [exists |-> TRUE, bytes |-> <<>>]
  /\ Goto(t, "init_extend")
  /\ UNCHANGED <<origin, cache_stat, cache_list, cache_data_range, cache_only_mode, env>>

\* init_cached_data: f.seek(file_stat.st_size - 1); f.write('\0')
\* (seeking to -1 raises IOError: Invalid argument)
init_extend(t) ==
  /\ th[t].pc = "init_extend"
  /\ IF th[t].file_stat.st_size - 1 < 0
     THEN /\ Raise(t, "IOError")
          /\ UNCHANGED cache_data
     ELSE /\ cache_data' = [cache_data EXCEPT
                 !.bytes = Splice(@, th[t].file_stat.st_size - 1, <<0>>)]
          /\ Goto(t, "remove_cached_blocks")
  /\ UNCHANGED <<origin, cache_stat, cache_list, cache_data_range, cache_only_mode, env>>

\* remove_cached_blocks that leaves cache.data.range in place
remove_cached_blocks_keep(t) ==
  /\ th[t].pc = "remove_cached_blocks"
  /\ Goto(t, "get_cached_blocks")
  /\ UNCHANGED <<origin, disk, cache_only_mode, env>>

\* read: if force_reload: remove_cached_blocks -> os.remove(cache.data.range)
\* (removing a missing file raises OSError)
remove_cached_blocks(t) ==
  /\ th[t].pc = "remove_cached_blocks"
  /\ IF th[t].force_reload
     THEN IF cache_data_range.exists
          THEN /\ cache_data_range' = NoFile(<<>>)
               /\ Goto(t, "get_cached_blocks")
          ELSE /\ Raise(t, "OSError")
               /\ UNCHANGED cache_data_range
     ELSE /\ Goto(t, "get_cached_blocks")
          /\ UNCHANGED cache_data_range
  /\ UNCHANGED <<origin, cache_stat, cache_list, cache_data, cache_only_mode, env>>

\* the request of a read: Range(offset, offset+size)
Request(t) == Range(th[t].offset, th[t].offset + th[t].size)

\* get_cached_blocks that never loads cache.data.range and starts from an
\* empty range set
get_cached_blocks_fresh(t) ==
  /\ th[t].pc = "get_cached_blocks"
  /\ th' = [th EXCEPT
         ![t].pc = "update_cached_data",
         ![t].cached_blocks = <<>>,
         ![t].blocks_to_read = get_uncovered_portions(<<>>, Request(t)),
         ![t].i = 1]
  /\ UNCHANGED <<origin, disk, cache_only_mode, env>>

\* get_cached_blocks that asks for the whole request as soon as any offset
\* of it is uncovered
get_cached_blocks_whole(t) ==
  /\ th[t].pc = "get_cached_blocks"
  /\ IF cache_data_range.exists /\ ~cache_data_range.complete
     THEN Raise(t, "EOFError")
     ELSE LET cached_blocks == IF cache_data_range.exists
                               THEN cache_data_range.val ELSE <<>>
          IN th' = [th EXCEPT
                 ![t].pc = "update_cached_data",
                 ![t].cached_blocks = cached_blocks,
                 ![t].blocks_to_read =
                    IF get_uncovered_portions(cached_blocks, Request(t)) = <<>>
                    THEN <<>> ELSE <<Request(t)>>,
                 ![t].i = 1]
  /\ UNCHANGED <<origin, disk, cache_only_mode, env>>

\* read: get_cached_blocks, then get_uncovered_portions of the request
get_cached_blocks(t) ==
  /\ th[t].pc = "get_cached_blocks"
  /\ IF cache_data_range.exists /\ ~cache_data_range.complete
     THEN Raise(t, "EOFError")
     ELSE LET cached_blocks == IF cache_data_range.exists
                               THEN cache_data_range.val ELSE <<>>
          IN th' = [th EXCEPT
                 ![t].pc = "update_cached_data",
                 ![t].cached_blocks = cached_blocks,
                 ![t].blocks_to_read = get_uncovered_portions(cached_blocks, Request(t)),
                 ![t].i = 1]
  /\ UNCHANGED <<origin, disk, cache_only_mode, env>>

\* the bytes one pass of the loop of update_cached_data fetches for a block
FetchBlock(block) == UnderlyingFs_read(RangeSize(block), block.start)

\* update_cached_data whose loop stores nothing in cache.data
update_cached_data_nowrite(t) ==
  /\ th[t].pc = "update_cached_data"
  /\ IF th[t].i > Len(th[t].blocks_to_read)
     THEN Goto(t, "update_cached_blocks_open")
     ELSE LET block == th[t].blocks_to_read[th[t].i]
          IN th' = [th EXCEPT
                      ![t].i = @ + 1,
                      ![t].calls = Append(@, [op |-> "read", start |-> block.start,
                                              size |-> RangeSize(block)])]
  /\ UNCHANGED <<origin, disk, cache_only_mode, env>>

\* update_cached_data: one pass of the loop over blocks_to_read
\* (underlying_fs.read, seek, write); the loop over, update_cached_blocks is next
update_cached_data(t) ==
  /\ th[t].pc = "update_cached_data"
  /\ IF th[t].i > Len(th[t].blocks_to_read)
     THEN /\ Goto(t, "update_cached_blocks_open")
          /\ UNCHANGED cache_data
     ELSE LET block == th[t].blocks_to_read[th[t].i]
              block_data == FetchBlock(block)
          IN /\ IF cache_data.exists
                THEN /\ cache_data' = [cache_data EXCEPT
                            !.bytes = Splice(@, block.start, block_data)]
                     /\ th' = [th EXCEPT
                            ![t].i = @ + 1,
                            ![t].calls = Append(@, [op |-> "read", start |-> block.start,
                                                    size |-> RangeSize(block)]),
                            ![t].written = @ \cup
                               (block.start .. (block.start + Len(block_data) - 1))]
                ELSE /\ Raise(t, "IOError")
                     /\ UNCHANGED cache_data
  /\ UNCHANGED <<origin, cache_stat, cache_list, cache_data_range, cache_only_mode, env>>

\* the range set read stores: cached_blocks.add_ranges(blocks_to_read)
NewBlocks(t) == add_ranges(th[t].cached_blocks, th[t].blocks_to_read)

\* update_cached_blocks: open(cache.data.range, 'wb')
update_cached_blocks_open(t) ==
  /\ th[t].pc = "update_cached_blocks_open"
  /\ cache_data_range' = EmptyFile(<<>>)
  /\ Goto(t, "update_cached_blocks_dump")
  /\ UNCHANGED <<origin, cache_stat, cache_list, cache_data, cache_only_mode, env>>

\* update_cached_blocks: pickle.dump(cached_blocks, f)
update_cached_blocks_dump(t) ==
  /\ th[t].pc = "update_cached_blocks_dump"
  /\ cache_data_range' = Pickled(NewBlocks(t))
  /\ Goto(t, "get_cached_data")
  /\ UNCHANGED <<origin, cache_stat, cache_list, cache_data, cache_only_mode, env>>

\* get_cached_data without the seek: size bytes from the start of cache.data
get_cached_data_noseek(t) ==
  /\ th[t].pc = "get_cached_data"
  /\ IF cache_data.exists
     THEN th' = [th EXCEPT ![t].pc = "done",
                           ![t].result = ReadAt(cache_data.bytes, th[t].size, 0)]
     ELSE Raise(t, "IOError")
  /\ UNCHANGED <<origin, disk, cache_only_mode, env>>

\* get_cached_data: seek(offset); read(size) on cache.data
get_cached_data(t) ==
  /\ th[t].pc = "get_cached_data"
  /\ IF cache_data.exists
     THEN th' = [th EXCEPT ![t].pc = "done",
                           ![t].result = ReadAt(cache_data.bytes, th[t].size, th[t].offset)]
     ELSE Raise(t, "IOError")
  /\ UNCHANGED <<origin, disk, cache_only_mode, env>>

(* --------------------------- specifications ---------------------------- *)
ReadSizes == 1 .. MaxReadSize
ReadOffsets == 0 .. MaxOffset

\* one step of the read (or getattr) thread t is running
StepRead(t) ==
  \/ init_exists(t)
  \/ getattr_lookup(t)
  \/ getattr_open(t)
  \/ getattr_dump(t)
  \/ init_open(t)
  \/ init_extend(t)
  \/ remove_cached_blocks(t)
  \/ get_cached_blocks(t)
  \/ update_cached_data(t)
  \/ update_cached_blocks_open(t)
  \/ update_cached_blocks_dump(t)
  \/ get_cached_data(t)
  \/ Return(t)

\* one step of the operation thread t is running
Step(t) ==
  \/ StepRead(t)
  \/ readdir_lookup(t)
  \/ readdir_open(t)
  \/ readdir_dump(t)

\* the dispatcher hands one operation to the engine
Start(t) ==
  \/ \E size \in ReadSizes, offset \in ReadOffsets, force_reload \in BOOLEAN :
       StartRead(t, size, offset, force_reload)
  \/ StartGetattr(t)
  \/ StartReaddir(t)

\* Single-threaded mode (fuse -s): operations run one at a time, to completion.
Next ==
  \/ Start(MainThread)
  \/ Step(MainThread)
  \/ cache_only_mode_enable
  \/ cache_only_mode_disable

Spec == Init /\ [][Next]_vars


(* ----------------------- process crash and restart --------------------- *)
\* The process dies while thread t is inside a read issued by the dispatcher
\* (PersistentCacheFs.read passes no force_reload) and is started again: the
\* files stay as they are, every local is lost, and Cacher.__init__ sets
\* cache_only_mode to False.
Crash(t) ==
  /\ th[t].op = "read"
  /\ ~th[t].force_reload
  /\ crashes < MaxCrashes
  /\ crashes' = crashes + 1
  /\ interrupted' = [valid |-> TRUE, size |-> th[t].size, offset |-> th[t].offset]
  /\ th' = [u \in Threads |-> IdleThread]
  /\ cache_only_mode' = FALSE
  /\ UNCHANGED <<origin, disk, mutations>>

\* after a restart the interrupted read is repeated first
StartAfterRestart(t) ==
  /\ interrupted.valid
  /\ StartRead(t, interrupted.size, interrupted.offset, FALSE)

NextCrash ==
  \/ (~interrupted.valid /\ Start(MainThread))
  \/ StartAfterRestart(MainThread)
  \/ Step(MainThread)
  \/ Crash(MainThread)
  \/ (~interrupted.valid /\ cache_only_mode_enable)
  \/ (~interrupted.valid /\ cache_only_mode_disable)

SpecCrash == Init /\ [][NextCrash]_vars

(* -------------------------- a changing origin -------------------------- *)
\* Between two operations (none running, the last one over) somebody else
\* changes the origin.
OriginChange ==
  /\ \A t \in Threads : th[t].pc \in {"idle", "done"}
  /\ mutations < MaxMutations
  /\ mutations' = mutations + 1
  /\ UNCHANGED <<disk, cache_only_mode, th, crashes, interrupted>>

\* the byte at offset o of the origin file is overwritten
origin_write(o) ==
  /\ OriginChange
  /\ o < Len(origin_file)
  /\ origin_file' = [origin_file EXCEPT ![o + 1] = @ + MaxSize]
  /\ UNCHANGED origin_dir

\* the origin file loses its last byte
origin_truncate ==
  /\ OriginChange
  /\ Len(origin_file) > 0
  /\ origin_file' = SubSeq(origin_file, 1, Len(origin_file) - 1)
  /\ UNCHANGED origin_dir

\* the origin file grows by one byte
origin_append ==
  /\ OriginChange
  /\ Len(origin_file) < MaxSize
  /\ origin_file' = Append(origin_file, Len(origin_file) + 1)
  /\ UNCHANGED origin_dir

\* the first entry of the origin directory is removed
origin_unlink ==
  /\ OriginChange
  /\ origin_dir # <<>>
  /\ origin_dir' = Tail(origin_dir)
  /\ UNCHANGED origin_file

\* Cacher.read(path, size, offset) has returned and is called again with the
\* same arguments
RepeatRead(t) ==
  /\ th[t].pc = "done" /\ th[t].op = "read" /\ th[t].err = "none"
  /\ ~th[t].force_reload
  /\ th' = [th EXCEPT ![t] =
              [IdleThread EXCEPT !.pc = "init_exists", !.op = "read",
                                 !.size = th[t].size, !.offset = th[t].offset,
                                 !.pre = disk, !.com = cache_only_mode,
                                 !.repeat = TRUE,
                                 !.first = IF th[t].repeat THEN th[t].first
                                           ELSE th[t].result]]
  /\ UNCHANGED <<origin, disk, cache_only_mode, env>>

\* the reads issued while the origin changes: short and long ones, at the
\* start of the file and near its end
MutReadSizes == {1, MaxReadSize}
MutReadOffsets == {0, MaxOffset - 1}

StartMut(t) ==
  \/ \E size \in MutReadSizes, offset \in MutReadOffsets, force_reload \in BOOLEAN :
       StartRead(t, size, offset, force_reload)
  \/ StartGetattr(t)
  \/ StartReaddir(t)

NextMut ==
  \/ StartMut(MainThread)
  \/ RepeatRead(MainThread)
  \/ Step(MainThread)
  \/ cache_only_mode_enable
  \/ cache_only_mode_disable
  \/ \E o \in 0 .. (MaxSize - 1) : origin_write(o)
  \/ origin_truncate
  \/ origin_append
  \/ origin_unlink

SpecMut == Init /\ [][NextMut]_vars


(* ------------------ without single-threaded mode ----------------------- *)
\* The FUSE loop without -s: every thread runs Cacher.read on the one path,
\* and the file steps of the reads interleave freely.
ConcReadSizes == {1}
ConcReadOffsets == {0, 1}

StartConc(t) ==
  \E size \in ConcReadSizes, offset \in ConcReadOffsets :
    StartRead(t, size, offset, FALSE)

NextConc == \E t \in Threads : StartConc(t) \/ StepRead(t)

SpecConc == Init /\ [][NextConc]_vars

(* --------------------------- a failing origin -------------------------- *)
\* the call of the origin the thread makes raises: the call is made, the
\* exception leaves the operation
OriginRaises(t, call) ==
  th' = [th EXCEPT ![t].pc = "done", ![t].err = "OSError", ![t].failed = TRUE,
                   ![t].calls = Append(@, call)]

\* Cacher.getattr: underlying_fs.getattr(path) raises
getattr_fail(t) ==
  /\ th[t].pc = "getattr_lookup" /\ ~cache_stat.exists
  /\ OriginRaises(t, [op |-> "getattr", start |-> 0, size |-> 0])
  /\ UNCHANGED <<origin, disk, cache_only_mode, env>>

\* Cacher.readdir: list(underlying_fs.readdir(path, offset)) raises
readdir_fail(t) ==
  /\ th[t].pc = "readdir_lookup" /\ ~cache_list.exists
  /\ OriginRaises(t, [op |-> "readdir", start |-> 0, size |-> 0])
  /\ UNCHANGED <<origin, disk, cache_only_mode, env>>

\* update_cached_data that swallows the exception of underlying_fs.read and
\* goes on with the next block
update_cached_data_swallow(t) ==
  /\ th[t].pc = "update_cached_data"
  /\ th[t].i <= Len(th[t].blocks_to_read) /\ cache_data.exists
  /\ LET block == th[t].blocks_to_read[th[t].i]
     IN th' = [th EXCEPT ![t].i = @ + 1, ![t].failed = TRUE,
                         ![t].calls = Append(@, [op |-> "read", start |-> block.start,
                                                 size |-> RangeSize(block)])]
  /\ UNCHANGED <<origin, disk, cache_only_mode, env>>

\* update_cached_data: underlying_fs.read(path, block.size, block.start)
\* raises in one pass of the loop
update_cached_data_fail(t) ==
  /\ th[t].pc = "update_cached_data"
  /\ th[t].i <= Len(th[t].blocks_to_read) /\ cache_data.exists
  /\ LET block == th[t].blocks_to_read[th[t].i]
     IN OriginRaises(t, [op |-> "read", start |-> block.start,
                         size |-> RangeSize(block)])
  /\ UNCHANGED <<origin, disk, cache_only_mode, env>>

NextFail ==
  \/ Next
  \/ getattr_fail(MainThread)
  \/ readdir_fail(MainThread)
  \/ update_cached_data_fail(MainThread)

SpecFail == Init /\ [][NextFail]_vars

(* --------------------- the dispatcher PersistentCacheFs ---------------- *)
RootPath == "/"
MirroredPath == "/f"
VirtualDir == ".pcachefs"
SyntheticPath == "/.pcachefs/cache_only_mode"
FsPaths == {RootPath, MirroredPath, SyntheticPath}
OpenFlags == {"O_RDONLY", "O_WRONLY", "O_RDWR"}
NoneEntry == "None"

\* vfs.contains(path): the path lies under the virtual prefix
vfs_contains(path) == path = SyntheticPath

\* pcachefsutil.is_read_only_flags(flags)
is_read_only_flags(flags) == flags = "O_RDONLY"

\* vfs.readdir(path, offset): at the root the synthetic root entry; inside
\* the synthetic namespace its own listing, closed by None
vfs_readdir(path) ==
  IF path = RootPath THEN <<VirtualDir>> ELSE <<"cache_only_mode", NoneEntry>>

\* a dispatcher operation that returns at once
Answer(t, op, path, flags, ret) ==
  /\ Idle(t)
  /\ th' = [th EXCEPT ![t] =
              [IdleThread EXCEPT !.pc = "done", !.op = op, !.path = path,
                                 !.flags = flags, !.ret = ret,
                                 !.pre = disk, !.com = cache_only_mode]]
  /\ UNCHANGED <<origin, disk, env>>

\* PersistentCacheFs.open(path, flags)
PersistentCacheFs_open(t, path, flags) ==
  /\ Answer(t, "open", path, flags,
            IF vfs_contains(path) THEN "vfs"
            ELSE IF ~is_read_only_flags(flags) THEN "E_PERM_DENIED" ELSE "0")
  /\ UNCHANGED cache_only_mode

\* PersistentCacheFs.truncate(path, size)
PersistentCacheFs_truncate(t, path) ==
  /\ Answer(t, "truncate", path, "",
            IF vfs_contains(path) THEN "vfs" ELSE "E_NOT_IMPL")
  /\ UNCHANGED cache_only_mode

\* PersistentCacheFs.write without the test of vfs.contains: every write goes
\* to the synthetic namespace
PersistentCacheFs_write_all_vfs(t, path) ==
  /\ Answer(t, "write", path, "", "vfs")
  /\ cache_only_mode' \in BOOLEAN

\* PersistentCacheFs.write(path, buf, offset); a write into the synthetic
\* namespace sets or clears the cache-only flag
PersistentCacheFs_write(t, path) ==
  /\ Answer(t, "write", path, "",
            IF vfs_contains(path) THEN "vfs" ELSE "E_NOT_IMPL")
  /\ IF vfs_contains(path)
     THEN cache_only_mode' \in BOOLEAN
     ELSE UNCHANGED cache_only_mode

\* PersistentCacheFs.readdir(path, offset) is entered
StartFsReaddir(t, path) ==
  /\ Idle(t)
  /\ th' = [th EXCEPT ![t] =
              [IdleThread EXCEPT !.pc = "fs_readdir", !.op = "fs_readdir",
                                 !.path = path, !.vfs_out = vfs_readdir(path),
                                 !.pre = disk, !.com = cache_only_mode]]
  /\ UNCHANGED <<origin, disk, cache_only_mode, env>>

\* PersistentCacheFs.readdir: the first loop has run over vfs.readdir; it
\* returns on None, otherwise the second loop calls cacher.readdir
PersistentCacheFs_readdir(t) ==
  /\ th[t].pc = "fs_readdir"
  /\ Goto(t, IF \E k \in 1 .. Len(th[t].vfs_out) : th[t].vfs_out[k] = NoneEntry
             THEN "done" ELSE "readdir_lookup")
  /\ UNCHANGED <<origin, disk, cache_only_mode, env>>

\* the entries before the first None
RECURSIVE UntilNone(_)
UntilNone(entries) ==
  IF entries = <<>> \/ Head(entries) = NoneEntry THEN <<>>
  ELSE <<Head(entries)>> \o UntilNone(Tail(entries))

\* the dispatcher yielding the entries of the engine first
Yield_engine_first(vfs_entries, engine_entries) ==
  IF UntilNone(vfs_entries) # vfs_entries THEN UntilNone(vfs_entries)
  ELSE engine_entries \o vfs_entries

\* what the generator PersistentCacheFs.readdir yields, given the entries
\* of vfs.readdir and of cacher.readdir
Yield(vfs_entries, engine_entries) ==
  IF UntilNone(vfs_entries) # vfs_entries THEN UntilNone(vfs_entries)
  ELSE vfs_entries \o engine_entries

\* the entries the readdir of t has yielded when it is over
Yielded(t) == Yield(th[t].vfs_out, th[t].listing)

NextFs ==
  \/ Next
  \/ \E path \in FsPaths, flags \in OpenFlags : PersistentCacheFs_open(MainThread, path, flags)
  \/ \E path \in FsPaths : PersistentCacheFs_truncate(MainThread, path)
  \/ \E path \in FsPaths : PersistentCacheFs_write(MainThread, path)
  \/ \E path \in {RootPath, SyntheticPath} : StartFsReaddir(MainThread, path)
  \/ PersistentCacheFs_readdir(MainThread)

SpecFs == Init /\ [][NextFs]_vars

(* ======================================================================= *)
(*                               the claims                                *)
(* ======================================================================= *)
\* the artifacts as they were when the running operation of t was entered
PreStat(t) == th[t].pre[1]
PreList(t) == th[t].pre[2]
PreData(t) == th[t].pre[3]
PreRange(t) == th[t].pre[4]

\* the offsets a cache.data.range file covers (none when it holds no range set)
CoveredBy(f) == IF f.complete THEN Covered(f.val) ELSE {}

Done(t, op) == th[t].pc = "done" /\ th[t].op = op
Succeeded(t, op) == Done(t, op) /\ th[t].err = "none"

\* the origin bytes at the offsets lo .. hi-1
OriginBytes(lo, hi) == [k \in 1 .. (hi - lo) |-> origin_file[lo + k]]

\* the byte a file holds at an offset; -1 where the file has no byte
ByteAt(bytes, o) == IF o < Len(bytes) THEN bytes[o + 1] ELSE -1

\* the calls of underlying_fs.read the running operation of t has made
ReadCalls(t) == SelectSeq(th[t].calls, LAMBDA c : c.op = "read")
CallOffsets(c) == c.start .. (c.start + c.size - 1)

\* the request of the read t runs, and the request clamped to the file:
\* q = [offset, min(offset+size, size(F)))
RequestOffsets(t) == th[t].offset .. (th[t].offset + th[t].size - 1)
QOffsets(t) ==
  th[t].offset .. (Min(th[t].offset + th[t].size, Len(origin_file)) - 1)

\* C1: with an immutable origin, after any earlier operations, a read with
\* 0 <= offset < size(F) and size > 0 succeeds and returns exactly the origin
\* bytes at [offset, min(offset+size, size(F))).
C1_ReadCorrectness ==
  \A t \in Threads :
    (Done(t, "read") /\ ~th[t].force_reload /\ th[t].offset < Len(origin_file))
      => /\ th[t].err = "none"
         /\ th[t].result =
              OriginBytes(th[t].offset,
                          Min(th[t].offset + th[t].size, Len(origin_file)))

\* a read that found a range set with a covered middle and fetched the two
\* gaps around it has returned
C1_Witness ==
  \E t \in Threads :
    /\ Done(t, "read") /\ ~th[t].force_reload
    /\ th[t].offset < Len(origin_file)
    /\ PreRange(t).complete /\ PreRange(t).val # <<>>
    /\ Len(th[t].blocks_to_read) = 2
    /\ Len(th[t].result) = MaxReadSize

\* C2: a read in cache-only mode whose request range is not fully covered
\* fails with CacheMiss, calls underlying_fs.read never and writes no artifact.
C2_CacheOnlyRefusal ==
  \A t \in Threads :
    (/\ Done(t, "read") /\ ~th[t].force_reload /\ th[t].com
     /\ ~(QOffsets(t) \subseteq CoveredBy(PreRange(t))))
      => /\ th[t].err = "CacheMiss"
         /\ ReadCalls(t) = <<>>
         /\ disk = th[t].pre

\* C3: between completed operations on an immutable origin, cache.data holds
\* at every offset the persisted range set covers what the origin holds there
\* (its byte, or no byte beyond the end of the file).
C3_CoveredBytes ==
  (\A t \in Threads : Idle(t))
    => \A o \in CoveredBy(cache_data_range) :
         ByteAt(cache_data.bytes, o) = ByteAt(origin_file, o)

\* between operations the range set holds two ranges with a gap between
\* them, both inside the file
C3_Witness ==
  /\ \A t \in Threads : Idle(t)
  /\ cache_data_range.complete
  /\ Len(cache_data_range.val) = 2
  /\ cache_data_range.val[2].start < Len(origin_file)

\* C4: after any sequence of reads every range of the persisted range set
\* lies within [0, stat.size).
C4_RangeBounds ==
  (/\ \A t \in Threads : Idle(t)
   /\ cache_stat.complete /\ cache_data_range.complete)
    => \A k \in 1 .. Len(cache_data_range.val) :
         /\ 0 <= cache_data_range.val[k].start
         /\ cache_data_range.val[k].end <= cache_stat.val.st_size

C6_CrashSafety ==
  \A t \in Threads :
    (Done(t, "read") /\ interrupted.valid /\ th[t].offset < Len(origin_file))
      => /\ th[t].err = "none"
         /\ th[t].result =
              OriginBytes(th[t].offset,
                          Min(th[t].offset + th[t].size, Len(origin_file)))

\* C7: in cache-only mode getattr (readdir) of a path with no cached stat
\* (listing) fails with CacheMiss, without a call of the origin and without
\* persisting anything.
C7_CacheOnlyMetadata ==
  \A t \in Threads :
    (/\ th[t].pc = "done" /\ th[t].com
     /\ \/ (th[t].op = "getattr" /\ ~PreStat(t).exists)
        \/ (th[t].op = "readdir" /\ ~PreList(t).exists))
      => /\ th[t].err = "CacheMiss"
         /\ th[t].calls = <<>>
         /\ disk = th[t].pre

\* what C8 says of one state: an operation entered with cache.stat
\* (cache.list) in place has not called underlying_fs.getattr (readdir), and
\* getattr (readdir) returns the stored snapshot
SnapshotServed ==
  \A t \in Threads :
    /\ (~Idle(t) /\ PreStat(t).complete)
         => /\ \A k \in 1 .. Len(th[t].calls) : th[t].calls[k].op # "getattr"
            /\ Done(t, "getattr")
                 => (th[t].err = "none" /\ th[t].file_stat = PreStat(t).val)
    /\ (~Idle(t) /\ PreList(t).complete)
         => /\ \A k \in 1 .. Len(th[t].calls) : th[t].calls[k].op # "readdir"
            /\ Done(t, "readdir")
                 => (th[t].err = "none" /\ th[t].listing = PreList(t).val)

\* C8: once cache.stat (cache.list) holds a snapshot, no getattr, readdir,
\* read or forced-reload read changes it or calls underlying_fs.getattr
\* (readdir) again, and getattr (readdir) returns it, whatever the origin has
\* become.
C8_WriteOnce ==
  [][/\ cache_stat.complete => cache_stat' = cache_stat
     /\ cache_list.complete => cache_list' = cache_list
     /\ SnapshotServed']_vars

\* getattr has returned a snapshot whose size is no longer the origin's
C8_Witness ==
  \E t \in Threads :
    /\ Succeeded(t, "getattr")
    /\ PreStat(t).complete
    /\ mutations > 0
    /\ th[t].file_stat.st_size # Len(origin_file)

\* C9: after a read the range set has gained only the offsets actually
\* written into cache.data (a short origin read adds only what it returned).
C9_PartialRead ==
  \A t \in Threads :
    (Succeeded(t, "read") /\ ~th[t].force_reload)
      => CoveredBy(cache_data_range) = CoveredBy(PreRange(t)) \cup th[t].written

\* C10: after a successful read without force_reload the range set covers
\* exactly what it covered before plus the request range
\* q = [offset, min(offset+size, stat.size)).
C10_RangeSetAfterRead ==
  \A t \in Threads :
    (Succeeded(t, "read") /\ ~th[t].force_reload)
      => CoveredBy(cache_data_range) = CoveredBy(PreRange(t)) \cup QOffsets(t)


\* C11: after a successful read, whatever happens to the origin file
\* afterwards, the same read issued again (without force_reload) succeeds and
\* returns the bytes returned the first time.
C11_SealsContent ==
  \A t \in Threads :
    (Done(t, "read") /\ th[t].repeat)
      => (th[t].err = "none" /\ th[t].result = th[t].first)

\* a repeated read has returned bytes the origin no longer holds at these
\* offsets
C11_Witness ==
  \E t \in Threads :
    /\ Succeeded(t, "read") /\ th[t].repeat
    /\ mutations > 0
    /\ th[t].result # <<>>
    /\ th[t].result # UnderlyingFs_read(th[t].size, th[t].offset)


\* the offsets of all calls of underlying_fs.read the operation of t has made
FetchedOffsets(t) ==
  {o \in RequestOffsets(t) :
     \E k \in 1 .. Len(ReadCalls(t)) : o \in CallOffsets(ReadCalls(t)[k])}

\* what C12 says of the state in which a read of t returns
Refetched(t) ==
  (Succeeded(t, "read") /\ th[t].force_reload)
    => /\ FetchedOffsets(t) = RequestOffsets(t)
       /\ \A k \in 1 .. Len(ReadCalls(t)) :
            CallOffsets(ReadCalls(t)[k]) \subseteq RequestOffsets(t)
       /\ \A o \in RequestOffsets(t) :
            o < Len(origin_file) => ByteAt(cache_data.bytes, o) = origin_file[o + 1]

\* C12: when a read with force_reload returns successfully it has called
\* underlying_fs.read for sub-ranges whose union is its entire request,
\* whatever was covered before, and cache.data holds at the offsets of the
\* request the bytes the origin has there now.
C12_ForceReloadRefetches ==
  [][\A t \in Threads : th[t].pc # "done" => Refetched(t)']_vars

\* a forced reload of a request that was covered has replaced a cached byte
\* by the byte the changed origin holds
C12_Witness ==
  \E t \in Threads :
    /\ Succeeded(t, "read") /\ th[t].force_reload
    /\ RequestOffsets(t) \subseteq CoveredBy(PreRange(t))
    /\ mutations > 0
    /\ \E o \in RequestOffsets(t) :
         /\ o < Len(PreData(t).bytes)
         /\ ByteAt(cache_data.bytes, o) # ByteAt(PreData(t).bytes, o)

C20_ReaddirOrdering ==
  \A t \in Threads :
    (Succeeded(t, "fs_readdir") /\ th[t].path = RootPath)
      => LET synthetic == vfs_readdir(RootPath)
             engine == cache_list.val
             n == Len(synthetic)
         IN /\ cache_list.complete /\ th[t].listing = engine
            /\ Len(Yielded(t)) = n + Len(engine)
            /\ \A k \in 1 .. n : Yielded(t)[k] = synthetic[k]
            /\ \A k \in 1 .. Len(engine) : Yielded(t)[n + k] = engine[k]

\* readdir at the root has yielded the synthetic entry and then the cached
\* listing of the engine
C20_Witness ==
  \E t \in Threads :
    /\ Succeeded(t, "fs_readdir") /\ th[t].path = RootPath
    /\ PreList(t).complete
    /\ Len(Yielded(t)) > Len(vfs_readdir(RootPath)) + 2


\* the operation of t is over and a call of the origin raised in it
OriginFailed(t) == th[t].pc = "done" /\ th[t].failed

\* the call that raised was the last call of the operation, and the error
\* is what the operation raised
Surfaced(t) ==
  /\ th[t].err = "OSError"
  /\ th[t].op \in {"getattr", "readdir"} => Len(th[t].calls) = 1
  /\ \A k \in 1 .. (Len(th[t].calls) - 1) :
       th[t].calls[k] # th[t].calls[Len(th[t].calls)]

\* no cache.stat or cache.list written by the failed lookup
NothingPersisted(t) ==
  /\ th[t].calls[Len(th[t].calls)].op = "getattr"
       => (~cache_stat.exists /\ cache_data = PreData(t))
  /\ th[t].calls[Len(th[t].calls)].op = "readdir" => ~cache_list.exists

\* C15 as stated: an origin failure is surfaced after the single call, no
\* cache.stat or cache.list is persisted, and after a failed
\* underlying_fs.read the range set is the one from before the read.
C15_OriginFailure_AsStated ==
  \A t \in Threads :
    OriginFailed(t)
      => /\ Surfaced(t)
         /\ NothingPersisted(t)
         /\ th[t].op = "read" => cache_data_range = PreRange(t)

\* C15 (amended): an origin failure is surfaced after the single call and
\* no cache.stat or cache.list is persisted; after a failed
\* underlying_fs.read the range set is the one from before the read when
\* force_reload is false, and is removed when force_reload is true; it never
\* covers an offset it did not cover before.
C15_OriginFailure ==
  \A t \in Threads :
    OriginFailed(t)
      => /\ Surfaced(t)
         /\ NothingPersisted(t)
         /\ (th[t].op = "read" /\ th[t].calls[Len(th[t].calls)].op = "getattr")
              => cache_data_range = PreRange(t)
         /\ (th[t].op = "read" /\ th[t].calls[Len(th[t].calls)].op = "read")
              => cache_data_range =
                   IF th[t].force_reload THEN NoFile(<<>>) ELSE PreRange(t)
         /\ CoveredBy(cache_data_range) \subseteq CoveredBy(PreRange(t))

\* a read without force_reload whose second fetch raised, after the first
\* one was spliced, over a range set that already covered an offset
C15_Witness ==
  \E t \in Threads :
    /\ OriginFailed(t) /\ th[t].op = "read" /\ ~th[t].force_reload
    /\ Len(th[t].calls) = 2
    /\ CoveredBy(PreRange(t)) # {}


\* offset o of cache.data holds the byte the origin has there
Written(o) ==
  cache_data.exists /\ ByteAt(cache_data.bytes, o) = ByteAt(origin_file, o)

\* the steps of read that come after update_cached_data
AfterSplice == {"update_cached_blocks_open", "update_cached_blocks_dump",
                "get_cached_data"}

\* C16: inside a read cache.data is created and extended first, then every
\* fetched block is spliced, then cache.data.range is written, then the
\* result is returned; in every state the persisted range set covers only
\* offsets of the file whose bytes are in cache.data.
C16_WriteOrdering ==
  /\ \A o \in CoveredBy(cache_data_range) : o < Len(origin_file) => Written(o)
  /\ \A t \in Threads :
       /\ th[t].pc \in {"remove_cached_blocks", "get_cached_blocks",
                        "update_cached_data"} \cup AfterSplice
            => cache_data.exists
       /\ (th[t].pc = "update_cached_data" /\ th[t].i <= Len(th[t].blocks_to_read))
            => cache_data_range = IF th[t].force_reload THEN NoFile(<<>>)
                                  ELSE PreRange(t)
       /\ th[t].pc \in AfterSplice
            => /\ th[t].i > Len(th[t].blocks_to_read)
               /\ \A k \in 1 .. Len(th[t].blocks_to_read) :
                    \A o \in RangeOffsets(th[t].blocks_to_read[k]) :
                      o < Len(origin_file) => Written(o)
       /\ (th[t].pc = "get_cached_data" \/ Succeeded(t, "read"))
            => cache_data_range = Pickled(NewBlocks(t))
       /\ (th[t].pc \in AfterSplice \ {"get_cached_data"})
            => th[t].result = <<>>

\* two blocks have been spliced into cache.data and cache.data.range is
\* open for writing, still empty
C16_Witness ==
  \E t \in Threads :
    /\ th[t].pc = "update_cached_blocks_dump"
    /\ Len(th[t].blocks_to_read) = 2
    /\ th[t].written # {}
    /\ cache_data_range = EmptyFile(<<>>)


\* cache.data is there and no init_cached_data is between creating and
\* extending it
Initialised ==
  cache_data.exists /\ \A t \in Threads : th[t].pc # "init_extend"

\* a step keeps the length of cache.data and every byte of it that is not
\* the filler
Untouched ==
  /\ cache_data'.exists
  /\ Len(cache_data'.bytes) = Len(cache_data.bytes)
  /\ \A k \in 1 .. Len(cache_data.bytes) :
       cache_data.bytes[k] # 0 => cache_data'.bytes[k] = cache_data.bytes[k]

\* C17: once init_cached_data has created cache.data its length is the
\* st_size of cache.stat, for every size of the file; no later step of any
\* read truncates it or sets a spliced byte back to the filler.
C17_InitOnce ==
  /\ [](Initialised => /\ cache_stat.complete
                       /\ Len(cache_data.bytes) = cache_stat.val.st_size
                       /\ Len(cache_data.bytes) = Len(origin_file))
  /\ [][Initialised => Untouched]_vars

\* a later read has gone through init_cached_data over a cache.data that
\* holds spliced bytes
C17_Witness ==
  \E t \in Threads :
    /\ th[t].pc = "remove_cached_blocks" /\ PreData(t).exists
    /\ \E k \in 1 .. Len(PreData(t).bytes) : PreData(t).bytes[k] # 0
    /\ cache_data = PreData(t)

\* C18: a read with force_reload over a path without cache.data.range, at an
\* offset inside the file, succeeds and returns the bytes of the origin.
C18_ForceReloadAnyState ==
  \A t \in Threads :
    (Done(t, "read") /\ th[t].force_reload /\ ~PreRange(t).exists
       /\ th[t].offset < Len(origin_file))
      => (th[t].err = "none" /\ th[t].result =
                OriginBytes(th[t].offset,
                            Min(th[t].offset + th[t].size, Len(origin_file))))


\* the persisted range set covers an offset of the file whose byte in
\* cache.data is not the byte of the origin
Corrupt ==
  \E o \in CoveredBy(cache_data_range) : o < Len(origin_file) /\ ~Written(o)

\* C19: with reads of several threads interleaved at their file steps the
\* range set can come to cover an offset whose byte in cache.data is not the
\* origin's, and it does so only in runs where one read started while
\* another was inside the engine; reads that run one after the other never
\* get there.
C19_Serialization ==
  Corrupt => \E t \in Threads : th[t].overlapped

\* both reads have returned and the range set covers a byte that
\* init_cached_data of the other read has wiped
C19_Witness ==
  /\ Corrupt
  /\ \A t \in Threads : Idle(t)
  /\ \E o \in CoveredBy(cache_data_range) :
       o < Len(cache_data.bytes) /\ cache_data.bytes[o + 1] = 0

====
